---- MODULE Spec2Model ----
(***************************************************************************)
(* news_sentiment_trader/main.py: fetch a news CSV, keep the top N rows,   *)
(* append placeholder sentiment columns, write the result and try to open  *)
(* it.  Python lists are objects with identity, so the tables live on a    *)
(* heap: a row object is a list of cells, a table object is a list of row  *)
(* addresses.  Sharing and in-place appends are therefore visible.         *)
(***************************************************************************)
EXTENDS Integers, Sequences, FiniteSets, TLC

VARIABLES
    pc,             \* position of main(): a prompt loop, a stage, or "exited"
    argv,           \* the flags as parsed by parse_args (never modified)
    args,           \* the argparse namespace: rows, scores (mutated by the prompts)
    stdin,          \* the lines the user will type, in order
    stdinPos,       \* number of lines already consumed by input()
    stdout,         \* lines printed so far
    heap,           \* the list objects: [rows |-> row objects, tables |-> table objects]
    response,       \* the table value fetch parsed from the response (input of the pipeline)
    rows,           \* address held by the local `rows`            (0: unbound)
    rows_limited,   \* address held by the local `rows_limited`    (0: unbound)
    rows_augmented, \* address held by the local `rows_augmented`  (0: unbound)
    rows_twice,     \* address of a second widening of rows_augmented (0: unbound)
    file,           \* the output file: NoFile, or the lines written to it
    stages,         \* stages entered so far, in order
    fetchCalls,     \* number of urlopen attempts
    opened,         \* what try_open_file did: "no", "spawned", "raised", "skipped"
    exc,            \* the uncaught exception that ended the run, or "none"
    exit_status     \* process exit status: <<>> while running, <<code>> once exited

vars == <<pc, argv, args, stdin, stdinPos, stdout, heap, response, rows,
          rows_limited, rows_augmented, rows_twice, file, stages, fetchCalls, opened,
          exc, exit_status>>

----------------------------------------------------------------------------
(* Bounds of the model *)

MaxDataRows == 2        \* data rows of a fetched table
MaxInputs == 2          \* lines available on stdin
MaxN == 3               \* largest row count passed directly to limit_rows

(* Program constants *)

MinScores == 1
MaxScores == 5

(* Optional[int]: None is <<>>, a value v is <<v>> *)
None == <<>>
Some(v) == <<v>>
Val(o) == o[1]

Min(a, b) == IF a < b THEN a ELSE b
Max(a, b) == IF a > b THEN a ELSE b

----------------------------------------------------------------------------
(* Values *)

\* Rows of the fetched CSV: cells are strings, lengths are not uniform.
RowValues == { <<>>, <<"a">>, <<"a", "b">> }

RECURSIVE SeqsUpTo(_, _)
SeqsUpTo(S, k) ==
    IF k = 0 THEN { <<>> }
    ELSE LET shorter == SeqsUpTo(S, k - 1)
         IN  shorter \cup { Append(s, x) : s \in { t \in shorter : Len(t) = k - 1 }, x \in S }

\* A Table: empty, or a header followed by at most MaxDataRows data rows.
Tables == SeqsUpTo(RowValues, MaxDataRows + 1)

\* Lines typed at a prompt, as sequences of characters.
Entries == { <<"x">>, <<"0">>, <<"-", "1">>, <<" ", "2">>, <<"7">> }

Stdins == SeqsUpTo(Entries, MaxInputs)

\* Values argparse can leave in args.rows / args.scores (type=int, default=None).
FlagRows == { None, Some(0), Some(2) }
FlagScores == { None, Some(3), Some(6) }

NoFile == << "<absent>" >>

----------------------------------------------------------------------------
(* int(s.strip()) *)

IsSpace(c) == c \in { " ", "\t" }
IsDigit(c) == c \in { "0", "1", "2", "3", "4", "5", "6", "7", "8", "9" }

DigitVal(c) ==
    CASE c = "0" -> 0 [] c = "1" -> 1 [] c = "2" -> 2 [] c = "3" -> 3
      [] c = "4" -> 4 [] c = "5" -> 5 [] c = "6" -> 6 [] c = "7" -> 7
      [] c = "8" -> 8 [] c = "9" -> 9

RECURSIVE LStrip(_)
LStrip(s) == IF s # <<>> /\ IsSpace(Head(s)) THEN LStrip(Tail(s)) ELSE s

RECURSIVE RStrip(_)
RStrip(s) ==
    IF s # <<>> /\ IsSpace(s[Len(s)]) THEN RStrip(SubSeq(s, 1, Len(s) - 1)) ELSE s

Strip(s) == RStrip(LStrip(s))

RECURSIVE DigitsVal(_, _)
DigitsVal(s, acc) ==
    IF s = <<>> THEN acc ELSE DigitsVal(Tail(s), 10 * acc + DigitVal(Head(s)))

\* int(): optional sign, then one or more decimal digits; anything else is a
\* ValueError (ok = FALSE).
PyInt(s) ==
    LET signed == s # <<>> /\ Head(s) \in { "+", "-" }
        body   == IF signed THEN Tail(s) ELSE s
        good   == body # <<>> /\ \A i \in 1..Len(body) : IsDigit(body[i])
        mag    == IF good THEN DigitsVal(body, 0) ELSE 0
    IN  [ok |-> good,
         val |-> IF signed /\ Head(s) = "-" THEN 0 - mag ELSE mag]

----------------------------------------------------------------------------
(* The heap of list objects *)

EmptyHeap == [rows |-> <<>>, tables |-> <<>>]

\* a new row object holding `cells`
AllocRow(h, cells) ==
    [heap |-> [h EXCEPT !.rows = Append(@, cells)], ret |-> Len(h.rows) + 1]

\* a new table object holding the row addresses `items`
AllocTable(h, items) ==
    [heap |-> [h EXCEPT !.tables = Append(@, items)], ret |-> Len(h.tables) + 1]

\* list.append on a row object, in place
RowAppend(h, a, cell) == [h EXCEPT !.rows[a] = Append(@, cell)]

\* list.append on a table object, in place
TableAppend(h, t, a) == [h EXCEPT !.tables[t] = Append(@, a)]

\* the value of a table: its rows' cells, in order
TableAt(h, t) == [i \in 1..Len(h.tables[t]) |-> h.rows[h.tables[t][i]]]

\* building the parsed rows: one fresh row object per row, then the list of them
RECURSIVE AllocRows(_, _, _)
AllocRows(h, tv, acc) ==
    IF tv = <<>> THEN AllocTable(h, acc)
    ELSE LET r == AllocRow(h, Head(tv))
         IN  AllocRows(r.heap, Tail(tv), Append(acc, r.ret))

\* seq[:n]
SliceTo(s, n) ==
    IF n >= 0 THEN SubSeq(s, 1, Min(n, Len(s)))
    ELSE SubSeq(s, 1, Max(Len(s) + n, 0))

\* seq[1:]
SliceFrom1(s) == SubSeq(s, 2, Len(s))

----------------------------------------------------------------------------
(* limit_rows *)

\* `not rows` inside the two transformations
IsEmptyList(h, t) == h.tables[t] = <<>>

limit_rows_header_counted(h, t, n) ==
    IF IsEmptyList(h, t) THEN [heap |-> h, ret |-> t]
    ELSE AllocTable(h, SliceTo(h.tables[t], n))

\* header, data = rows[0], rows[1:]; limited = data[:n]; return [header] + limited
\* Every slice and the concatenation build a new list object; the row objects
\* themselves are shared with the input.
limit_rows(h, t, n) ==
    IF IsEmptyList(h, t) THEN [heap |-> h, ret |-> t]
    ELSE LET header  == h.tables[t][1]
             data    == AllocTable(h, SliceFrom1(h.tables[t]))
             limited == AllocTable(data.heap, SliceTo(data.heap.tables[data.ret], n))
             single  == AllocTable(limited.heap, <<header>>)
         IN  AllocTable(single.heap,
                        single.heap.tables[single.ret] \o single.heap.tables[limited.ret])

----------------------------------------------------------------------------
(* add_sentiment_columns *)

DigitStr(d) ==
    CASE d = 0 -> "0" [] d = 1 -> "1" [] d = 2 -> "2" [] d = 3 -> "3"
      [] d = 4 -> "4" [] d = 5 -> "5" [] d = 6 -> "6" [] d = 7 -> "7"
      [] d = 8 -> "8" [] d = 9 -> "9"

\* "{i}" for i >= 0
RECURSIVE IntStr(_)
IntStr(i) == IF i < 10 THEN DigitStr(i) ELSE IntStr(i \div 10) \o DigitStr(i % 10)

\* f"sentiment_{i}" and f"sentiment_{i}_reason"
ScoreName(i) == "sentiment_" \o IntStr(i)
ReasonName(i) == "sentiment_" \o IntStr(i) \o "_reason"

ListCopyAlias(h, a) == [heap |-> h, ret |-> a]

\* list.copy(): a new row object with the same cells
ListCopy(h, a) == AllocRow(h, h.rows[a])

IsIn(x, s) == \E k \in 1..Len(s) : s[k] = x

RECURSIVE AppendNamesOnce(_, _, _, _)
AppendNamesOnce(h, a, i, last) ==
    IF i > last THEN h
    ELSE LET h1 == IF IsIn(ScoreName(i), h.rows[a]) THEN h
                   ELSE RowAppend(h, a, ScoreName(i))
             h2 == IF IsIn(ReasonName(i), h1.rows[a]) THEN h1
                   ELSE RowAppend(h1, a, ReasonName(i))
         IN  AppendNamesOnce(h2, a, i + 1, last)

\* for i in range(i, last + 1): append sentiment_i, sentiment_i_reason
RECURSIVE AppendNames(_, _, _, _)
AppendNames(h, a, i, last) ==
    IF i > last THEN h
    ELSE AppendNames(RowAppend(RowAppend(h, a, ScoreName(i)), a, ReasonName(i)),
                     a, i + 1, last)

RECURSIVE AppendBlanksSingle(_, _, _)
AppendBlanksSingle(h, a, k) ==
    IF k <= 0 THEN h ELSE AppendBlanksSingle(RowAppend(h, a, ""), a, k - 1)

\* for _ in range(k): append "", ""
RECURSIVE AppendBlanks(_, _, _)
AppendBlanks(h, a, k) ==
    IF k <= 0 THEN h
    ELSE AppendBlanks(RowAppend(RowAppend(h, a, ""), a, ""), a, k - 1)

\* for row in data: new_row = row.copy(); pad it; augmented.append(new_row)
RECURSIVE AugmentRows(_, _, _, _)
AugmentRows(h, data, num_scores, augmented) ==
    IF data = <<>> THEN h
    ELSE LET new_row == ListCopy(h, Head(data))
             padded  == AppendBlanks(new_row.heap, new_row.ret, num_scores)
         IN  AugmentRows(TableAppend(padded, augmented, new_row.ret),
                         Tail(data), num_scores, augmented)

add_sentiment_columns(h, t, num_scores) ==
    IF IsEmptyList(h, t) THEN [heap |-> h, ret |-> t]
    ELSE LET header     == h.tables[t][1]
             new_header == ListCopy(h, header)
             named      == AppendNames(new_header.heap, new_header.ret, 1, num_scores)
             augmented  == AllocTable(named, <<new_header.ret>>)
             data       == AllocTable(augmented.heap, SliceFrom1(augmented.heap.tables[t]))
             done       == AugmentRows(data.heap, data.heap.tables[data.ret],
                                       num_scores, augmented.ret)
         IN  [heap |-> done, ret |-> augmented.ret]

----------------------------------------------------------------------------
(* prompt_if_needed *)

RowsAcceptedFromZero(v) == v >= 0

\* the check of line 53, negated: `args.rows <= 0` raises ValueError
RowsAccepted(v) == ~(v <= 0)

\* the check of line 63
ScoresAccepted(v) == MinScores <= v /\ v <= MaxScores

\* input(): the next line of stdin, or EOFError when there is none
AtEOF == stdinPos >= Len(stdin)
NextLine == stdin[stdinPos + 1]

Crash(e) ==
    /\ pc' = "exited"
    /\ exc' = e
    /\ exit_status' = Some(1)

\* line 48: `if args.rows is None`
CheckRows ==
    /\ pc = "check_rows"
    /\ pc' = IF args.rows = None THEN "input_rows" ELSE "check_scores"
    /\ UNCHANGED <<argv, args, stdin, stdinPos, stdout, heap, response, rows,
                   rows_limited, rows_augmented, rows_twice, file, stages,
                   fetchCalls, opened, exc, exit_status>>

\* lines 49-57: one iteration of the rows loop.  args.rows is assigned before
\* it is validated; a ValueError prints the hint and loops.
InputRows ==
    /\ pc = "input_rows"
    /\ IF AtEOF
       THEN /\ Crash("EOFError")
            /\ UNCHANGED <<args, stdinPos, stdout>>
       ELSE LET r == PyInt(Strip(NextLine))
            IN  /\ stdinPos' = stdinPos + 1
                /\ args' = IF r.ok THEN [args EXCEPT !.rows = Some(r.val)] ELSE args
                /\ IF r.ok /\ RowsAccepted(r.val)
                   THEN pc' = "check_scores" /\ stdout' = stdout
                   ELSE pc' = pc /\ stdout' = Append(stdout, "Please enter a positive integer.")
                /\ UNCHANGED <<exc, exit_status>>
    /\ UNCHANGED <<argv, stdin, heap, response, rows, rows_limited, rows_augmented,
                   rows_twice, file, stages, fetchCalls, opened>>

\* line 58: `if args.scores is None`; otherwise prompt_if_needed returns
CheckScores ==
    /\ pc = "check_scores"
    /\ pc' = IF args.scores = None THEN "input_scores" ELSE "Fetching"
    /\ UNCHANGED <<argv, args, stdin, stdinPos, stdout, heap, response, rows,
                   rows_limited, rows_augmented, rows_twice, file, stages,
                   fetchCalls, opened, exc, exit_status>>

\* lines 59-67: one iteration of the scores loop
InputScores ==
    /\ pc = "input_scores"
    /\ IF AtEOF
       THEN /\ Crash("EOFError")
            /\ UNCHANGED <<args, stdinPos, stdout>>
       ELSE LET r == PyInt(Strip(NextLine))
            IN  /\ stdinPos' = stdinPos + 1
                /\ args' = IF r.ok THEN [args EXCEPT !.scores = Some(r.val)] ELSE args
                /\ IF r.ok /\ ScoresAccepted(r.val)
                   THEN pc' = "Fetching" /\ stdout' = stdout
                   ELSE pc' = pc /\ stdout' = Append(stdout, "Please enter an integer from 1 to 5.")
                /\ UNCHANGED <<exc, exit_status>>
    /\ UNCHANGED <<argv, stdin, heap, response, rows, rows_limited, rows_augmented,
                   rows_twice, file, stages, fetchCalls, opened>>

----------------------------------------------------------------------------
(* fetch_finviz_csv, write_csv, try_open_file *)

\* What urlopen + decode + csv.reader can produce: an exception, or the parsed rows.
fetch_finviz_csv ==
    { [raised |-> TRUE, table |-> <<>>] } \cup { [raised |-> FALSE, table |-> t] : t \in Tables }

\* ",".join of the cells of a row
RECURSIVE Join(_)
Join(row) ==
    IF row = <<>> THEN ""
    ELSE IF Len(row) = 1 THEN row[1]
    ELSE row[1] \o "," \o Join(Tail(row))

\* csv.writer.writerow for cells without delimiters, quotes or line breaks:
\* a row made of one empty cell is written as a quoted empty field
CsvLine(row) == (IF row = <<"">> THEN "\"\"" ELSE Join(row)) \o "\r\n"

CsvLines(tv) == [i \in 1..Len(tv) |-> CsvLine(tv[i])]

write_csv_swallowing(tv, old) ==
    { [raised |-> FALSE, file |-> old] }
    \cup { [raised |-> FALSE, file |-> SubSeq(CsvLines(tv), 1, k)] : k \in 0..Len(tv) }

\* The outcomes of write_csv: mkdir or open fails (file untouched), a write
\* fails after k rows (file truncated and partly written), or all rows are written.
write_csv(tv, old) ==
    { [raised |-> TRUE, file |-> old] }
    \cup { [raised |-> TRUE, file |-> SubSeq(CsvLines(tv), 1, k)] : k \in 0..(Len(tv) - 1) }
    \cup { [raised |-> FALSE, file |-> CsvLines(tv)] }

Platforms ==
    { [sys_platform |-> "linux",   os_name |-> "posix"],
      [sys_platform |-> "darwin",  os_name |-> "posix"],
      [sys_platform |-> "win32",   os_name |-> "nt"],
      [sys_platform |-> "freebsd", os_name |-> "posix"] }

\* which branch of try_open_file runs
Launcher(p) ==
    IF p.sys_platform = "linux" THEN "xdg-open"
    ELSE IF p.sys_platform = "darwin" THEN "open"
    ELSE IF p.os_name = "nt" THEN "startfile"
    ELSE "none"

try_open_file_unguarded(p, launches) ==
    IF Launcher(p) = "none" THEN [opened |-> "skipped", raised |-> FALSE]
    ELSE IF launches THEN [opened |-> "spawned", raised |-> FALSE]
    ELSE [opened |-> "raised", raised |-> TRUE]

\* try: launch the viewer; except Exception: pass
try_open_file(p, launches) ==
    IF Launcher(p) = "none" THEN [opened |-> "skipped", raised |-> FALSE]
    ELSE IF launches THEN [opened |-> "spawned", raised |-> FALSE]
    ELSE [opened |-> "raised", raised |-> FALSE]

----------------------------------------------------------------------------
(* main *)

FetchedNothingIgnored(h, t) == FALSE

\* line 153: `if not rows`
FetchedNothing(h, t) == h.tables[t] = <<>>

\* lines 151-155
Fetching ==
    /\ pc = "Fetching"
    /\ stages' = Append(stages, "Fetching")
    /\ fetchCalls' = fetchCalls + 1
    /\ \E f \in fetch_finviz_csv :
         IF f.raised
         THEN /\ Crash("URLError")
              /\ stdout' = Append(stdout, "Downloading Finviz news CSV...")
              /\ UNCHANGED <<heap, response, rows>>
         ELSE LET a == AllocRows(heap, f.table, <<>>)
              IN  /\ heap' = a.heap
                  /\ rows' = a.ret
                  /\ response' = f.table
                  /\ IF FetchedNothing(a.heap, a.ret)
                     THEN /\ stdout' = stdout \o <<"Downloading Finviz news CSV...",
                                                   "No data returned from Finviz.">>
                          /\ pc' = "exited"
                          /\ exit_status' = Some(1)
                          /\ exc' = exc
                     ELSE /\ stdout' = Append(stdout, "Downloading Finviz news CSV...")
                          /\ pc' = "Limiting"
                          /\ UNCHANGED <<exc, exit_status>>
    /\ UNCHANGED <<argv, args, stdin, stdinPos, rows_limited, rows_augmented,
                   rows_twice, file, opened>>

\* lines 157-158
Limiting ==
    /\ pc = "Limiting"
    /\ stages' = Append(stages, "Limiting")
    /\ stdout' = Append(stdout, "Trimming to top N headline(s)...")
    /\ LET r == limit_rows(heap, rows, Val(args.rows))
       IN  heap' = r.heap /\ rows_limited' = r.ret
    /\ pc' = "Widening"
    /\ UNCHANGED <<argv, args, stdin, stdinPos, response, rows, rows_augmented,
                   rows_twice, file, fetchCalls, opened, exc, exit_status>>

WideningThenOpening ==
    /\ pc = "Widening"
    /\ stages' = Append(stages, "Widening")
    /\ stdout' = Append(stdout, "Adding N sentiment score column pairs...")
    /\ LET r == add_sentiment_columns(heap, rows_limited, Val(args.scores))
       IN  heap' = r.heap /\ rows_augmented' = r.ret
    /\ pc' = "Opening"
    /\ UNCHANGED <<argv, args, stdin, stdinPos, response, rows, rows_limited,
                   rows_twice, file, fetchCalls, opened, exc, exit_status>>

\* lines 160-161
Widening ==
    /\ pc = "Widening"
    /\ stages' = Append(stages, "Widening")
    /\ stdout' = Append(stdout, "Adding N sentiment score column pairs...")
    /\ LET r == add_sentiment_columns(heap, rows_limited, Val(args.scores))
       IN  heap' = r.heap /\ rows_augmented' = r.ret
    /\ pc' = "Writing"
    /\ UNCHANGED <<argv, args, stdin, stdinPos, response, rows, rows_limited,
                   rows_twice, file, fetchCalls, opened, exc, exit_status>>

\* lines 163-164
Writing ==
    /\ pc = "Writing"
    /\ stages' = Append(stages, "Writing")
    /\ stdout' = Append(stdout, "Writing CSV to OUTPUT ...")
    /\ \E w \in write_csv(TableAt(heap, rows_augmented), file) :
         /\ file' = w.file
         /\ IF w.raised
            THEN Crash("OSError")
            ELSE pc' = "Opening" /\ UNCHANGED <<exc, exit_status>>
    /\ UNCHANGED <<argv, args, stdin, stdinPos, heap, response, rows, rows_limited,
                   rows_augmented, rows_twice, fetchCalls, opened>>

\* lines 166-170: the viewer is tried, then main prints and returns
Opening ==
    /\ pc = "Opening"
    /\ stages' = Append(stages, "Opening")
    /\ \E p \in Platforms, launches \in BOOLEAN :
         LET o == try_open_file(p, launches)
         IN  /\ opened' = o.opened
             /\ IF o.raised
                THEN /\ Crash("OSError")
                     /\ stdout' = Append(stdout, "Attempting to open the CSV locally (best-effort)...")
                ELSE /\ pc' = "exited"
                     /\ exit_status' = Some(0)
                     /\ exc' = exc
                     /\ stdout' = stdout \o <<"Attempting to open the CSV locally (best-effort)...",
                                              "Done.", "Saved: OUTPUT">>
    /\ UNCHANGED <<argv, args, stdin, stdinPos, heap, response, rows, rows_limited,
                   rows_augmented, rows_twice, file, fetchCalls>>

----------------------------------------------------------------------------
(* The run of main() *)

Init ==
    /\ pc = "check_rows"
    /\ argv \in [rows : FlagRows, scores : FlagScores]
    /\ args = argv
    /\ stdin \in Stdins
    /\ stdinPos = 0
    /\ stdout = <<>>
    /\ heap = EmptyHeap
    /\ response = <<>>
    /\ rows = 0
    /\ rows_limited = 0
    /\ rows_augmented = 0
    /\ rows_twice = 0
    /\ file = NoFile
    /\ stages = <<>>
    /\ fetchCalls = 0
    /\ opened = "no"
    /\ exc = "none"
    /\ exit_status = None

Next ==
    \/ CheckRows
    \/ InputRows
    \/ CheckScores
    \/ InputScores
    \/ Fetching
    \/ Limiting
    \/ Widening
    \/ Writing
    \/ Opening

Spec == Init /\ [][Next]_vars

(* prompt_if_needed alone; the process keeps running while it can step *)

PromptNext ==
    \/ CheckRows
    \/ InputRows
    \/ CheckScores
    \/ InputScores

PromptSpec == Init /\ [][PromptNext]_vars /\ WF_vars(PromptNext)

----------------------------------------------------------------------------
(* The two transformations applied to arbitrary tables and arguments *)

FnInit ==
    /\ pc = "fn_start"
    /\ response \in Tables
    /\ LET a == AllocRows(EmptyHeap, response, <<>>)
       IN  heap = a.heap /\ rows = a.ret
    /\ \E n \in (0 - 1)..MaxN, s \in (MinScores - 1)..(MaxScores + 1) :
         /\ argv = [rows |-> Some(n), scores |-> Some(s)]
         /\ args = argv
    /\ stdin = <<>>
    /\ stdinPos = 0
    /\ stdout = <<>>
    /\ rows_limited = 0
    /\ rows_augmented = 0
    /\ rows_twice = 0
    /\ file = NoFile
    /\ stages = <<>>
    /\ fetchCalls = 0
    /\ opened = "no"
    /\ exc = "none"
    /\ exit_status = None

\* rows_limited = limit_rows(rows, n)
FnLimit ==
    /\ pc = "fn_start"
    /\ LET r == limit_rows(heap, rows, Val(args.rows))
       IN  heap' = r.heap /\ rows_limited' = r.ret
    /\ pc' = "fn_limited"
    /\ UNCHANGED <<argv, args, stdin, stdinPos, stdout, response, rows, rows_augmented,
                   rows_twice, file, stages, fetchCalls, opened, exc, exit_status>>

\* rows_augmented = add_sentiment_columns(rows, scores)
FnWiden ==
    /\ pc = "fn_start"
    /\ LET r == add_sentiment_columns(heap, rows, Val(args.scores))
       IN  heap' = r.heap /\ rows_augmented' = r.ret
    /\ pc' = "fn_widened"
    /\ UNCHANGED <<argv, args, stdin, stdinPos, stdout, response, rows, rows_limited,
                   rows_twice, file, stages, fetchCalls, opened, exc, exit_status>>

\* rows_twice = add_sentiment_columns(rows_augmented, scores)
FnWidenAgain ==
    /\ pc = "fn_widened"
    /\ LET r == add_sentiment_columns(heap, rows_augmented, Val(args.scores))
       IN  heap' = r.heap /\ rows_twice' = r.ret
    /\ pc' = "fn_widened_twice"
    /\ UNCHANGED <<argv, args, stdin, stdinPos, stdout, response, rows, rows_limited,
                   rows_augmented, file, stages, fetchCalls, opened, exc, exit_status>>

FnNext ==
    \/ FnLimit
    \/ FnWiden
    \/ FnWidenAgain

FnSpec == FnInit /\ [][FnNext]_vars

----------------------------------------------------------------------------
(* Properties of the transformations (FnSpec) *)

SentimentNames ==
    << "sentiment_1", "sentiment_1_reason", "sentiment_2", "sentiment_2_reason",
       "sentiment_3", "sentiment_3_reason", "sentiment_4", "sentiment_4_reason",
       "sentiment_5", "sentiment_5_reason" >>

Blanks(k) == [i \in 1..k |-> ""]

ScoresInRange == Val(args.scores) \in 1..5

\* C1: for a non-empty table T and N >= 0, limit_rows(T, N) is T's header
\* followed by exactly the first min(N, len(T)-1) data rows of T, in order.
C1_LimitRowsKeepsFirstN ==
    (pc = "fn_limited" /\ response # <<>> /\ Val(args.rows) >= 0) =>
        LET out == TableAt(heap, rows_limited)
            k   == Min(Val(args.rows), Len(response) - 1)
        IN  /\ Len(out) = k + 1
            /\ out[1] = response[1]
            /\ \A i \in 1..k : out[i + 1] = response[i + 1]

\* a table with two different data rows cut down to its first data row
C1_Witness ==
    /\ pc = "fn_limited"
    /\ response = << <<"a", "b">>, <<"a">>, <<>> >>
    /\ Val(args.rows) = 1
    /\ TableAt(heap, rows_limited) = << <<"a", "b">>, <<"a">> >>

\* C2: for a non-empty table T and scores in [1,5], add_sentiment_columns(T, scores)
\* has as many rows as T, its header is T's header followed by sentiment_1,
\* sentiment_1_reason, ..., sentiment_scores_reason, and every data row is T's
\* row followed by 2*scores empty strings.
C2_WidenAppendsPlaceholders ==
    (pc = "fn_widened" /\ response # <<>> /\ ScoresInRange) =>
        LET out == TableAt(heap, rows_augmented)
            s   == Val(args.scores)
        IN  /\ Len(out) = Len(response)
            /\ out[1] = response[1] \o SubSeq(SentimentNames, 1, 2 * s)
            /\ \A i \in 2..Len(response) : out[i] = response[i] \o Blanks(2 * s)

\* a two-column header and a shorter data row widened by two slots
C2_Witness ==
    /\ pc = "fn_widened"
    /\ response = << <<"a", "b">>, <<"a">> >>
    /\ Val(args.scores) = 2
    /\ TableAt(heap, rows_augmented) =
         << <<"a", "b", "sentiment_1", "sentiment_1_reason", "sentiment_2", "sentiment_2_reason">>,
            <<"a", "", "", "", "">> >>

\* C8: widening twice with the same scores appends twice: the header gains
\* 4*scores names (the same names again) and every data row 4*scores cells.
C8_WidenTwiceAppendsTwice ==
    (pc = "fn_widened_twice" /\ response # <<>> /\ ScoresInRange) =>
        LET out   == TableAt(heap, rows_twice)
            s     == Val(args.scores)
            names == SubSeq(SentimentNames, 1, 2 * s)
        IN  /\ Len(out) = Len(response)
            /\ Len(out[1]) = Len(response[1]) + 4 * s
            /\ out[1] = response[1] \o names \o names
            /\ \A i \in 2..Len(response) : Len(out[i]) = Len(response[i]) + 4 * s

C8_Witness ==
    /\ pc = "fn_widened_twice"
    /\ response = << <<"a">>, <<"a", "b">> >>
    /\ Val(args.scores) = 1
    /\ TableAt(heap, rows_twice) =
         << <<"a", "sentiment_1", "sentiment_1_reason", "sentiment_1", "sentiment_1_reason">>,
            <<"a", "b", "", "", "", "">> >>

\* the list a call of FnNext takes as its input
CallInput == IF pc = "fn_widened" THEN rows_augmented ELSE rows

\* C10: a call of limit_rows or add_sentiment_columns leaves its input table
\* with the same rows and cells, and an empty input is returned as-is.
C10_InputsNotModified ==
    [][ LET t == CallInput
        IN  /\ TableAt(heap', t) = TableAt(heap, t)
            /\ heap.tables[t] = <<>> =>
                 /\ pc' = "fn_limited" => rows_limited' = t
                 /\ pc' = "fn_widened" => rows_augmented' = t
                 /\ pc' = "fn_widened_twice" => rows_twice' = t ]_vars

\* the result was widened while the input kept its width
C10_Witness ==
    /\ pc = "fn_widened"
    /\ response = << <<"a">>, <<"a", "b">> >>
    /\ Val(args.scores) = 1
    /\ TableAt(heap, rows) = response
    /\ Len(TableAt(heap, rows_augmented)[1]) = 3

----------------------------------------------------------------------------
(* Properties of the run (Spec) *)

StageOrder == << "Fetching", "Limiting", "Widening", "Writing", "Opening" >>

\* the fetch returned a table with no rows
FetchedEmpty == rows # 0 /\ response = <<>>

\* C3: limit_rows is never called with N <= 0 and add_sentiment_columns never
\* with scores outside [1,5].
C3_ArgsValidated ==
    /\ pc = "Limiting" => Val(args.rows) > 0
    /\ pc = "Widening" => Val(args.scores) \in 1..5

\* C4: an empty fetched table ends the run with "no data" and a non-zero
\* status, no later stage is entered and no file is written.
C4_EmptyFetchExits ==
    FetchedEmpty =>
        /\ pc = "exited"
        /\ exit_status = Some(1)
        /\ exc = "none"
        /\ stdout[Len(stdout)] = "No data returned from Finviz."
        /\ stages = << "Fetching" >>
        /\ file = NoFile

C4_Witness == FetchedEmpty /\ pc = "exited" /\ fetchCalls = 1

\* C5: the stages run in the order Fetching, Limiting, Widening, Writing,
\* Opening, each at most once; a run that ends without an exception either
\* went through all of them or left after Fetching on an empty table.
C5_StagesInOrder ==
    /\ Len(stages) <= Len(StageOrder)
    /\ stages = SubSeq(StageOrder, 1, Len(stages))
    /\ pc \notin { "check_rows", "input_rows", "check_scores", "input_scores", "exited" }
         => pc = StageOrder[Len(stages) + 1]
    /\ (pc = "exited" /\ exc = "none") =>
         \/ stages = StageOrder
         \/ stages = << "Fetching" >> /\ FetchedEmpty

C5_Witness == pc = "exited" /\ stages = StageOrder /\ exc = "none"

\* C6: once the write has succeeded the run ends with status 0 and the file
\* as written, whatever the viewer launch does.
C6_OpenNeverFails ==
    /\ pc = "Opening" => file = CsvLines(TableAt(heap, rows_augmented))
    /\ Len(stages) = Len(StageOrder) =>
         /\ pc = "exited"
         /\ exit_status = Some(0)
         /\ exc = "none"
         /\ file = CsvLines(TableAt(heap, rows_augmented))

\* the launch raised and the run still ended with status 0
C6_Witness == opened = "raised" /\ pc = "exited" /\ exit_status = Some(0)

\* C7: at most one fetch attempt; a fetch failure ends the run non-zero with
\* no file written; a write failure ends it non-zero before Opening; status 0
\* only with the file completely written.
C7_FailuresAreFatal ==
    /\ fetchCalls <= 1
    /\ exc = "URLError" =>
         exit_status = Some(1) /\ file = NoFile /\ stages = << "Fetching" >>
    /\ exc = "OSError" =>
         exit_status = Some(1) /\ stages = SubSeq(StageOrder, 1, 4)
    /\ exit_status = Some(0) =>
         file # NoFile /\ file = CsvLines(TableAt(heap, rows_augmented))

\* a write that failed after the first line
C7_Witness ==
    /\ exc = "OSError"
    /\ Len(file) = 1
    /\ file # NoFile
    /\ Len(TableAt(heap, rows_augmented)) > 1
    /\ pc = "exited"

----------------------------------------------------------------------------
(* Properties of prompt_if_needed (PromptSpec) *)

\* what each line of Entries means to a reader: its integer, if it is one
EntryValue(e) ==
    CASE e = <<"0">>      -> Some(0)
      [] e = <<"-", "1">> -> Some(0 - 1)
      [] e = <<" ", "2">> -> Some(2)
      [] e = <<"7">>      -> Some(7)
      [] OTHER            -> None

ValidRowsEntry(e) == EntryValue(e) # None /\ Val(EntryValue(e)) > 0
ValidScoresEntry(e) == EntryValue(e) # None /\ Val(EntryValue(e)) \in 1..5

\* position of the first valid line after position `from`, 0 if there is none
FirstValidRows(from) ==
    LET c == { i \in (from + 1)..Len(stdin) : ValidRowsEntry(stdin[i]) }
    IN  IF c = {} THEN 0 ELSE CHOOSE i \in c : \A j \in c : i <= j

FirstValidScores(from) ==
    LET c == { i \in (from + 1)..Len(stdin) : ValidScoresEntry(stdin[i]) }
    IN  IF c = {} THEN 0 ELSE CHOOSE i \in c : \A j \in c : i <= j

RowsIdx == IF argv.rows = None THEN FirstValidRows(0) ELSE 0
ScoresIdx == IF argv.scores = None THEN FirstValidScores(RowsIdx) ELSE 0

RowsObtainable == argv.rows # None \/ RowsIdx > 0
ScoresObtainable == argv.scores # None \/ ScoresIdx > 0

C9_PromptSafe ==
    /\ argv.rows # None => args.rows = argv.rows /\ pc # "input_rows"
    /\ argv.scores # None => args.scores = argv.scores /\ pc # "input_scores"
    /\ (argv.rows = None /\ pc \in { "check_scores", "input_scores", "Fetching" }) =>
         /\ RowsIdx > 0
         /\ args.rows = EntryValue(stdin[RowsIdx])
         /\ stdinPos >= RowsIdx
         /\ pc = "check_scores" => stdinPos = RowsIdx
    /\ (argv.scores = None /\ pc = "Fetching") =>
         /\ ScoresIdx > 0
         /\ args.scores = EntryValue(stdin[ScoresIdx])
         /\ stdinPos = ScoresIdx
    /\ pc = "input_rows" => stdinPos < Len(stdin) + 1 /\ (RowsIdx = 0 \/ stdinPos < RowsIdx)
    /\ pc = "exited" =>
         /\ exc = "EOFError"
         /\ stdinPos = Len(stdin)
         /\ ~RowsObtainable \/ ~ScoresObtainable

\* C9: a value given as a flag is kept and not prompted for; otherwise the
\* loop re-prompts after each invalid line, returns with the first valid line
\* of the input, fails only when the input runs out before a valid line, and
\* terminates when a valid line is there.
C9_PromptUntilValid ==
    /\ []C9_PromptSafe
    /\ (pc = "input_rows" /\ RowsObtainable) ~> (pc = "check_scores")
    /\ (pc = "input_scores" /\ ScoresObtainable) ~> (pc = "Fetching")

\* an invalid line was re-prompted and the second line accepted
C9_Witness ==
    /\ pc = "Fetching"
    /\ argv.rows = None
    /\ stdin = << <<"0">>, <<" ", "2">> >>
    /\ stdinPos = 2
    /\ args.rows = Some(2)
    /\ Len(stdout) = 1

====
